---- MODULE Spec2Model ----
(***************************************************************************)
(* internal/storage/storage.go: the storage Driver of GoToSocial.          *)
(*                                                                         *)
(* The Driver wraps a key/value store (disk or S3), adds a cache of        *)
(* presigned S3 GET URLs (URL) and probes the S3 endpoint for the origin   *)
(* a content-security-policy has to allow (ProbeCSPUri).                   *)
(*                                                                         *)
(* Time is counted in seconds.  The store, the signing client and the TTL  *)
(* cache are libraries the Driver calls; they are modelled by what the     *)
(* Driver relies on: a map of objects, a signing call that succeeds or     *)
(* fails, and a map of entries that a periodic sweep pass empties of the   *)
(* entries whose expiry lies in the past.                                  *)
(***************************************************************************)
EXTENDS Integers, Sequences, FiniteSets, TLC

VARIABLES
    backend,        \* config.GetStorageBackend()
    Storage,        \* Driver.Storage: "S3Storage", "DiskStorage", "none" (no Driver)
    Proxy,          \* Driver.Proxy
    PresignedCache, \* Driver.PresignedCache
    Endpoint,       \* scheme and host the S3 client signs URLs for
    configErr,      \* the error AutoConfig returned ("" for none)
    objects,        \* the objects of the store: key -> bytes
    clock,          \* time.Now()
    sweepAt,        \* when the next sweep pass of the cache is scheduled
    advances,       \* how often time has advanced
    pc,             \* per caller of URL: where it is in URL
    key,            \* per caller of URL: the key it asks for
    u,              \* per caller of URL: the URL PresignedGetObject returned
    psu,            \* per caller of URL: the PresignedURL built from u
    ret,            \* per caller of URL: what its last call returned
    signCalls,      \* how many PresignedGetObject calls URL has made
    issued,         \* per key: the PresignedURL last returned for it
    ppc,            \* where ProbeCSPUri is
    probeRes,       \* ProbeCSPUri's pending return values
    probeRet,       \* what the last ProbeCSPUri returned
    probeLog,       \* the backend calls of the current / last ProbeCSPUri
    wpc,            \* where WalkKeys is
    walkEnum,       \* the backend's enumeration: its order and the position in it
    visited,        \* the keys the visitor was invoked with
    walkRet,        \* what the last WalkKeys returned
    opRet           \* what the last Get, Put, Delete or Has returned

cfgVars == <<backend, Storage, Proxy, Endpoint, configErr>>
timeVars == <<clock, sweepAt, advances>>
urlVars == <<pc, key, u, psu, ret, signCalls, issued>>
probeVars == <<ppc, probeRes, probeRet, probeLog>>
walkVars == <<wpc, walkEnum, visited, walkRet>>

vars == <<cfgVars, PresignedCache, objects, timeVars, urlVars, probeVars, walkVars, opRet>>

---------------------------------------------------------------------------
(* Bounds of the model. *)

\* callers of URL that may run concurrently
NThreads == 2
\* how often time advances in one behaviour
MaxAdvances == 4
\* PresignedGetObject calls URL makes in one behaviour
MaxSigns == 2

Threads == 1..NThreads

\* keys callers ask for
Keys == {"a.png", "b.jpg"}

---------------------------------------------------------------------------
(* Program constants. *)

Second == 1
Minute == 60 * Second
Hour == 60 * Minute

urlCacheTTL == Hour * 24
urlCacheExpiryFrequency == Minute * 5

\* ttl.New(0, 1000, urlCacheTTL-urlCacheExpiryFrequency)
cacheTTL == urlCacheTTL - urlCacheExpiryFrequency
cacheCap == 1000

cspKey == "gotosocial-csp-probe"
lockKey == "store.lock"
Bucket == "bucket"

\* the validity ProbeCSPUri asks for
probeTTL == 1 * Second

ErrAlreadyExists == "ErrAlreadyExists"
ErrNotFound == "ErrNotFound"
ErrIO == "i/o error"
ErrSign == "sign error"
ErrWalk == "visitor error"
NoErr == ""

---------------------------------------------------------------------------
(* Values. *)

\* a nil pointer / an absent value is the empty sequence, v is <<v>>
Nil == <<>>
Some(v) == <<v>>

\* maps
EmptyMap == <<>>
MapPut(f, k, v) == [x \in DOMAIN f \cup {k} |-> IF x = k THEN v ELSE f[x]]
MapDel(f, k) == [x \in DOMAIN f \ {k} |-> f[x]]

---------------------------------------------------------------------------
(* The presigned-URL cache: ttl.Cache[string, PresignedURL]. *)

\* a nil *ttl.Cache (the Driver of NewFileStorage sets none).  mu is the
\* holder of the cache's mutex (0: unlocked), sweepEvery the period of the
\* sweep (0: not started)
NilCache ==
    [isNil |-> TRUE, TTL |-> 0, Cap |-> 0, Cache |-> EmptyMap, mu |-> 0, sweepEvery |-> 0]

\* ttl.New(0, cap, ttl)
NewCache(cap, ttl) ==
    [isNil |-> FALSE, TTL |-> ttl, Cap |-> cap, Cache |-> EmptyMap, mu |-> 0, sweepEvery |-> 0]

\* presignedCache.Start(freq): the sweep runs every freq from now on
CacheStart(c, freq) == [c EXCEPT !.sweepEvery = freq]

\* a peek that finds nothing, whatever the cache holds
CachePeekBlind(c, k) == Nil

\* d.PresignedCache.Cache.Get(key) under the cache's lock: the entry, or
\* nothing.  The entry's Expiry is left as it is.
CachePeek(c, k) == IF k \in DOMAIN c.Cache THEN Some(c.Cache[k]) ELSE Nil

\* the entry a full cache gives up: the one inserted first
CacheOldest(c) ==
    CHOOSE k \in DOMAIN c.Cache :
        \A j \in DOMAIN c.Cache : c.Cache[k].Expiry <= c.Cache[j].Expiry

\* d.PresignedCache.Set(key, psu) at time now: the entry expires TTL later
CacheSet(c, k, v, now) ==
    LET entry == [Value |-> v, Expiry |-> now + c.TTL]
        room  == IF k \notin DOMAIN c.Cache /\ Cardinality(DOMAIN c.Cache) >= c.Cap
                 THEN MapDel(c.Cache, CacheOldest(c))
                 ELSE c.Cache
    IN  [c EXCEPT !.Cache = MapPut(room, k, entry)]

\* whether a sweep pass at time now drops entry e: now.After(e.Expiry)
CacheExpired(e, now) == now > e.Expiry

\* one sweep pass at time now
CacheSweep(c, now) ==
    [c EXCEPT !.Cache =
        [k \in {j \in DOMAIN c.Cache : ~CacheExpired(c.Cache[j], now)} |-> c.Cache[k]]]

---------------------------------------------------------------------------
(* The signing backend: s3.Client().PresignedGetObject. *)

\* the URL signed at time now for bucket/k, valid for expires
PresignedGetObject(ep, bucket, k, expires, now) ==
    [Scheme |-> ep.scheme, Host |-> ep.host,
     Path |-> "/" \o bucket \o "/" \o k,
     RawQuery |-> "X-Amz-Signature=sig",
     Date |-> now, Expires |-> expires]

\* the zero url.URL
NoURL == [Scheme |-> "", Host |-> "", Path |-> "", RawQuery |-> "",
          Date |-> 0, Expires |-> 0]
NoPSU == [URL |-> NoURL, Expiry |-> 0]

---------------------------------------------------------------------------
(* Driver.URL *)

\* s3, ok := d.Storage.(*storage.S3Storage)
IsS3 == Storage = "S3Storage"

\* the check with the Proxy flag forgotten
PresignsWhileProxying == IsS3

\* the check of URL and ProbeCSPUri: S3 without proxying
Presigns == IsS3 /\ ~Proxy

\* what a finished call of URL is recorded as
Returned(k, v, s) == Some([key |-> k, val |-> v, signed |-> s, at |-> clock])

\* the record of the PresignedURL handed out for a key
Issue(k, p, ins) == MapPut(issued, k, [psu |-> p, insertedAt |-> ins])

\* if !ok || d.Proxy { return nil }
URLGated(t, k) ==
    /\ Storage # "none"
    /\ pc[t] = "idle"
    /\ ~Presigns
    /\ ret' = [ret EXCEPT ![t] = Returned(k, Nil, FALSE)]
    /\ UNCHANGED <<cfgVars, PresignedCache, objects, timeVars, pc, key, u, psu,
                   signCalls, issued, probeVars, walkVars, opRet>>

\* the entry's own expiry taken for the link's
HitValueOfEntryExpiry(e) == [e.Value EXCEPT !.Expiry = e.Expiry]

\* return &e.Value
HitValue(e) == e.Value

\* d.PresignedCache.Lock(): the caller waits until the mutex is free
URLLock(t, k) ==
    /\ pc[t] = "idle"
    /\ Presigns
    /\ PresignedCache.mu = 0
    /\ PresignedCache' = [PresignedCache EXCEPT !.mu = t]
    /\ pc' = [pc EXCEPT ![t] = "peek"]
    /\ key' = [key EXCEPT ![t] = k]
    /\ UNCHANGED <<cfgVars, objects, timeVars, u, psu, ret, signCalls, issued,
                   probeVars, walkVars, opRet>>

\* the mutex released: d.PresignedCache.Unlock()
CacheUnlock(c) == [c EXCEPT !.mu = 0]

\* the lookup through ttl.Cache.Get, which extends the entry's TTL
URLHitRefreshing(t, k) ==
    /\ pc[t] = "peek"
    /\ key[t] = k
    /\ CachePeek(PresignedCache, k) # Nil
    /\ LET e == CachePeek(PresignedCache, k)[1]
       IN  /\ PresignedCache' =
                CacheUnlock([PresignedCache EXCEPT
                               !.Cache[k].Expiry = clock + PresignedCache.TTL])
           /\ ret' = [ret EXCEPT ![t] = Returned(k, Some(HitValue(e)), FALSE)]
           /\ issued' = Issue(k, HitValue(e), e.Expiry - PresignedCache.TTL)
    /\ pc' = [pc EXCEPT ![t] = "idle"]
    /\ key' = [key EXCEPT ![t] = ""]
    /\ UNCHANGED <<cfgVars, objects, timeVars, u, psu, signCalls, probeVars,
                   walkVars, opRet>>

\* Cache.Get(key), Unlock(), and the peek has found the entry: return &e.Value
URLHit(t, k) ==
    /\ pc[t] = "peek"
    /\ key[t] = k
    /\ CachePeek(PresignedCache, k) # Nil
    /\ PresignedCache' = CacheUnlock(PresignedCache)
    /\ LET e == CachePeek(PresignedCache, k)[1]
       IN  /\ ret' = [ret EXCEPT ![t] = Returned(k, Some(HitValue(e)), FALSE)]
           /\ issued' = Issue(k, HitValue(e), e.Expiry - PresignedCache.TTL)
    /\ pc' = [pc EXCEPT ![t] = "idle"]
    /\ key' = [key EXCEPT ![t] = ""]
    /\ UNCHANGED <<cfgVars, objects, timeVars, u, psu, signCalls, probeVars,
                   walkVars, opRet>>

\* the miss with the mutex kept over the rest of the call
URLMissLocked(t, k) ==
    /\ pc[t] = "peek"
    /\ key[t] = k
    /\ CachePeek(PresignedCache, k) = Nil
    /\ pc' = [pc EXCEPT ![t] = "sign"]
    /\ UNCHANGED <<cfgVars, PresignedCache, objects, timeVars, key, u, psu, ret,
                   signCalls, issued, probeVars, walkVars, opRet>>

\* Cache.Get(key), Unlock(), and the peek has found nothing: the call goes
\* on to sign
URLMiss(t, k) ==
    /\ pc[t] = "peek"
    /\ key[t] = k
    /\ CachePeek(PresignedCache, k) = Nil
    /\ PresignedCache' = CacheUnlock(PresignedCache)
    /\ pc' = [pc EXCEPT ![t] = "sign"]
    /\ UNCHANGED <<cfgVars, objects, timeVars, key, u, psu, ret, signCalls,
                   issued, probeVars, walkVars, opRet>>

\* the error of PresignedGetObject ignored: the call goes on with the nil
\* URL, caches it and returns it
URLSignFailIgnored(t) ==
    /\ pc[t] = "sign"
    /\ signCalls' = signCalls + 1
    /\ PresignedCache' = CacheSet(PresignedCache, key[t],
                                  [URL |-> NoURL, Expiry |-> clock + urlCacheTTL], clock)
    /\ pc' = [pc EXCEPT ![t] = "idle"]
    /\ key' = [key EXCEPT ![t] = ""]
    /\ ret' = [ret EXCEPT ![t] =
                 Returned(key[t], Some([URL |-> NoURL, Expiry |-> clock + urlCacheTTL]), TRUE)]
    /\ UNCHANGED <<cfgVars, objects, timeVars, u, psu, issued, probeVars, walkVars, opRet>>

\* PresignedGetObject fails: return nil
URLSignFail(t) ==
    /\ pc[t] = "sign"
    /\ signCalls' = signCalls + 1
    /\ pc' = [pc EXCEPT ![t] = "idle"]
    /\ key' = [key EXCEPT ![t] = ""]
    /\ ret' = [ret EXCEPT ![t] = Returned(key[t], Nil, TRUE)]
    /\ UNCHANGED <<cfgVars, PresignedCache, objects, timeVars, u, psu, issued,
                   probeVars, walkVars, opRet>>

\* PresignedGetObject returns a URL signed now, valid for urlCacheTTL
URLSignOk(t) ==
    /\ pc[t] = "sign"
    /\ signCalls' = signCalls + 1
    /\ u' = [u EXCEPT ![t] = PresignedGetObject(Endpoint, Bucket, key[t], urlCacheTTL, clock)]
    /\ pc' = [pc EXCEPT ![t] = "stamp"]
    /\ UNCHANGED <<cfgVars, PresignedCache, objects, timeVars, key, psu, ret,
                   issued, probeVars, walkVars, opRet>>

\* the Expiry counted from the zero time instead of time.Now()
NewPSUFromZero(url, now) == [URL |-> url, Expiry |-> urlCacheTTL]

\* psu := PresignedURL{URL: u, Expiry: time.Now().Add(urlCacheTTL)}
NewPSU(url, now) == [URL |-> url, Expiry |-> now + urlCacheTTL]

URLStamp(t) ==
    /\ pc[t] = "stamp"
    /\ psu' = [psu EXCEPT ![t] = NewPSU(u[t], clock)]
    /\ u' = [u EXCEPT ![t] = NoURL]
    /\ pc' = [pc EXCEPT ![t] = "set"]
    /\ UNCHANGED <<cfgVars, PresignedCache, objects, timeVars, key, ret,
                   signCalls, issued, probeVars, walkVars, opRet>>

\* d.PresignedCache.Set(key, psu), which takes the mutex for the insertion
\* and releases it; return &psu
URLSet(t) ==
    /\ pc[t] = "set"
    /\ PresignedCache.mu = 0
    /\ PresignedCache' = CacheSet(PresignedCache, key[t], psu[t], clock)
    /\ ret' = [ret EXCEPT ![t] = Returned(key[t], Some(psu[t]), TRUE)]
    /\ issued' = Issue(key[t], psu[t], clock)
    /\ pc' = [pc EXCEPT ![t] = "idle"]
    /\ key' = [key EXCEPT ![t] = ""]
    /\ psu' = [psu EXCEPT ![t] = NoPSU]
    /\ UNCHANGED <<cfgVars, objects, timeVars, u, signCalls, probeVars,
                   walkVars, opRet>>

\* a further call may go on to sign: the signing calls made and about to be
\* made stay below MaxSigns
SignBudget == signCalls + Cardinality({o \in Threads : pc[o] = "sign"}) < MaxSigns

\* a call for k may start: it will find k cached, or it may sign
MayCall(k) == CachePeek(PresignedCache, k) = Nil => SignBudget

---------------------------------------------------------------------------
(* Time and the sweep of the cache: presignedCache.Start(frequency). *)

\* the first scheduled pass at or after time t (passes run every
\* urlCacheExpiryFrequency from the start of the cache at time 0)
PassAtOrAfter(t) ==
    ((t + urlCacheExpiryFrequency - 1) \div urlCacheExpiryFrequency) * urlCacheExpiryFrequency

\* the scheduled pass runs: the entries that have expired go
Sweep ==
    /\ PresignedCache.sweepEvery > 0
    /\ PresignedCache.mu = 0
    /\ clock = sweepAt
    /\ PresignedCache' = CacheSweep(PresignedCache, clock)
    /\ sweepAt' = sweepAt + PresignedCache.sweepEvery
    /\ UNCHANGED <<cfgVars, objects, clock, advances, pc, key, u, psu, ret,
                   signCalls, issued, probeVars, walkVars, opRet>>

\* how long time may advance in one step
Durations == {Second, urlCacheExpiryFrequency - Second, urlCacheExpiryFrequency, cacheTTL}

\* d passes.  A pass that is due runs before time moves on, and the passes
\* scheduled strictly inside the interval are left out only when they would
\* find nothing expired.  While a call of URL is under way time advances by
\* seconds only.
Advance(d) ==
    /\ Storage # "none"
    /\ advances < MaxAdvances
    /\ (\E t \in Threads : pc[t] # "idle") => d = Second
    /\ advances' = advances + 1
    /\ clock' = clock + d
    /\ IF PresignedCache.sweepEvery = 0
       THEN sweepAt' = sweepAt
       ELSE /\ clock < sweepAt
            /\ sweepAt < clock + d =>
                 CacheSweep(PresignedCache, PassAtOrAfter(clock + d) - urlCacheExpiryFrequency)
                   = PresignedCache
            /\ sweepAt' = PassAtOrAfter(clock + d)
    /\ UNCHANGED <<cfgVars, PresignedCache, objects, pc, key, u, psu, ret,
                   signCalls, issued, probeVars, walkVars, opRet>>

---------------------------------------------------------------------------
(* Construction: AutoConfig, NewFileStorage, NewS3Storage. *)

\* the backend names the configuration may hold
Backends == {"s3", "local", "gcs"}

\* the endpoints the S3 client may be configured for
Endpoints == {[scheme |-> "https", host |-> "cdn.example.com"],
              [scheme |-> "http", host |-> "minio:9000"]}

DefaultEndpoint == [scheme |-> "https", host |-> "cdn.example.com"]

\* return nil, err
NoDriver(err) ==
    [Storage |-> "none", Proxy |-> FALSE, PresignedCache |-> NilCache, err |-> err]

\* openFails: storage.OpenDisk returns an error
NewFileStorage(openFails) ==
    IF openFails
    THEN NoDriver("error opening disk storage: " \o ErrIO)
    ELSE [Storage |-> "DiskStorage", Proxy |-> FALSE, PresignedCache |-> NilCache,
          err |-> NoErr]

\* NewS3Storage with a cache of twice the capacity
NewS3StorageWide(proxy, openFails) ==
    IF openFails
    THEN NoDriver("error opening s3 storage: " \o ErrIO)
    ELSE [Storage |-> "S3Storage", Proxy |-> proxy,
          PresignedCache |-> CacheStart(NewCache(2 * 1000, cacheTTL),
                                        urlCacheExpiryFrequency),
          err |-> NoErr]

\* proxy: config.GetStorageS3Proxy(); openFails: storage.OpenS3 returns an
\* error
NewS3Storage(proxy, openFails) ==
    IF openFails
    THEN NoDriver("error opening s3 storage: " \o ErrIO)
    ELSE [Storage |-> "S3Storage", Proxy |-> proxy,
          PresignedCache |-> CacheStart(NewCache(cacheCap, cacheTTL),
                                        urlCacheExpiryFrequency),
          err |-> NoErr]

\* AutoConfig that takes an unknown backend name for "local"
AutoConfigLenient(name, proxy, openFails) ==
    IF name = "s3" THEN NewS3Storage(proxy, openFails) ELSE NewFileStorage(openFails)

\* switch backend := config.GetStorageBackend(); backend { ... }
AutoConfig(name, proxy, openFails) ==
    CASE name = "s3" -> NewS3Storage(proxy, openFails)
      [] name = "local" -> NewFileStorage(openFails)
      [] OTHER -> NoDriver("invalid storage backend: " \o name)

\* the store as it is opened: the disk store keeps its lock file, store.lock,
\* in the storage directory itself
OpenedObjects(storage) ==
    IF storage = "DiskStorage" THEN [k \in {lockKey} |-> "lock"] ELSE EmptyMap

\* the state after AutoConfig with the given configuration, at time 0
Configured(name, proxy, ep, openFails) ==
    LET d == AutoConfig(name, proxy, openFails)
    IN  /\ backend = name
        /\ Storage = d.Storage
        /\ Proxy = d.Proxy
        /\ PresignedCache = d.PresignedCache
        /\ configErr = d.err
        /\ Endpoint = ep
        /\ objects = OpenedObjects(d.Storage)
        /\ clock = 0
        /\ sweepAt = urlCacheExpiryFrequency
        /\ advances = 0
        /\ pc = [t \in Threads |-> "idle"]
        /\ key = [t \in Threads |-> ""]
        /\ u = [t \in Threads |-> NoURL]
        /\ psu = [t \in Threads |-> NoPSU]
        /\ ret = [t \in Threads |-> Nil]
        /\ signCalls = 0
        /\ issued = EmptyMap
        /\ ppc = "idle"
        /\ probeRes = [u |-> NoURL, uri |-> "", err |-> NoErr, berr |-> NoErr]
        /\ probeRet = Nil
        /\ probeLog = <<>>
        /\ wpc = "idle"
        /\ walkEnum = [order |-> <<>>, pos |-> 1, verr |-> NoErr, berr |-> NoErr]
        /\ visited = <<>>
        /\ walkRet = Nil
        /\ opRet = Nil

---------------------------------------------------------------------------
(* SpecCache: one caller of URL at a time, time and the sweep. *)


InitCache ==
    \E b \in Backends, proxy, openFails \in BOOLEAN :
        Configured(b, proxy, DefaultEndpoint, openFails)

NextCache ==
    \/ \E k \in Keys : URLGated(1, k)
    \/ \E k \in Keys : MayCall(k) /\ URLLock(1, k)
    \/ \E k \in Keys : URLHit(1, k)
    \/ \E k \in Keys : URLMiss(1, k)
    \/ URLSignFail(1)
    \/ URLSignOk(1)
    \/ URLStamp(1)
    \/ URLSet(1)
    \/ Sweep
    \/ \E d \in Durations : Advance(d)

SpecCache == InitCache /\ [][NextCache]_vars

---------------------------------------------------------------------------
(* The store behind the Driver (storage.Storage) and the Driver's         *)
(* operations on it.  fail says whether the backend's I/O fails.          *)

WriteBytes(objs, k, v, fail) ==
    IF fail THEN [objects |-> objs, n |-> 0, err |-> ErrIO]
    ELSE IF k \in DOMAIN objs THEN [objects |-> objs, n |-> 0, err |-> ErrAlreadyExists]
    ELSE [objects |-> MapPut(objs, k, v), n |-> Len(v), err |-> NoErr]

Remove(objs, k, fail) ==
    IF fail THEN [objects |-> objs, err |-> ErrIO]
    ELSE IF k \notin DOMAIN objs THEN [objects |-> objs, err |-> ErrNotFound]
    ELSE [objects |-> MapDel(objs, k), err |-> NoErr]

\* Put with the value left out
PutEmpty(objs, k, v, fail) == WriteBytes(objs, k, "", fail)

\* Driver.Put: return d.Storage.WriteBytes(ctx, key, value)
Put(objs, k, v, fail) == WriteBytes(objs, k, v, fail)

\* Delete without the call of the store
DeleteDropped(objs, k, fail) == [objects |-> objs, err |-> NoErr]

\* Driver.Delete: return d.Storage.Remove(ctx, key)
Delete(objs, k, fail) == Remove(objs, k, fail)

\* the keys callers of the store use, the reserved one among them
StoreKeys == Keys \cup {lockKey}

\* the values callers store
Values == {"x", "y"}

ReadBytes(objs, k, fail) ==
    IF fail THEN [val |-> "", err |-> ErrIO]
    ELSE IF k \notin DOMAIN objs THEN [val |-> "", err |-> ErrNotFound]
    ELSE [val |-> objs[k], err |-> NoErr]

Stat(objs, k, fail) ==
    IF fail THEN [ok |-> FALSE, err |-> ErrIO]
    ELSE [ok |-> k \in DOMAIN objs, err |-> NoErr]

\* Get with the store's error wrapped
GetWrapping(objs, k, fail) ==
    LET r == ReadBytes(objs, k, fail)
    IN  [val |-> r.val, err |-> IF r.err # NoErr THEN "error reading: " \o r.err ELSE NoErr]

\* Driver.Get: return d.Storage.ReadBytes(ctx, key)
Get(objs, k, fail) == ReadBytes(objs, k, fail)

\* Driver.GetStream: return d.Storage.ReadStream(ctx, key); the stream
\* yields the stored bytes
GetStream(objs, k, fail) == ReadBytes(objs, k, fail)

\* Driver.PutStream: return d.Storage.WriteStream(ctx, key, r); v is what
\* the reader yields
PutStream(objs, k, v, fail) == WriteBytes(objs, k, v, fail)

\* Has that asks the store nothing
HasAlways(objs, k, fail) == [ok |-> TRUE, err |-> NoErr]

\* Driver.Has: return d.Storage.Stat(ctx, key)
Has(objs, k, fail) == Stat(objs, k, fail)

\* Driver.Close: return d.Storage.Close()
Close(fail) == IF fail THEN ErrIO ELSE NoErr

\* what a finished operation on the store is recorded as: the operation, its
\* arguments, its results, berr, the error the store itself returned, and
\* after, the operation that succeeded on the same key just before it ("" if
\* there was none)
Done(op, k, v, n, ok, err, berr) ==
    Some([op |-> op, key |-> k, val |-> v, n |-> n, ok |-> ok, err |-> err,
          berr |-> berr,
          after |-> IF opRet # Nil /\ opRet[1].key = k /\ opRet[1].err = NoErr
                    THEN opRet[1].op ELSE ""])

\* a caller puts a value
DoPut(k, v, fail) ==
    /\ Storage # "none"
    /\ LET r == Put(objects, k, v, fail)
       IN  /\ objects' = r.objects
           /\ opRet' = Done("Put", k, v, r.n, FALSE, r.err,
                            WriteBytes(objects, k, v, fail).err)
    /\ UNCHANGED <<cfgVars, PresignedCache, timeVars, urlVars, probeVars, walkVars>>

\* a caller puts a value from a reader
DoPutStream(k, v, fail) ==
    /\ Storage # "none"
    /\ LET r == PutStream(objects, k, v, fail)
       IN  /\ objects' = r.objects
           /\ opRet' = Done("PutStream", k, v, r.n, FALSE, r.err,
                            WriteBytes(objects, k, v, fail).err)
    /\ UNCHANGED <<cfgVars, PresignedCache, timeVars, urlVars, probeVars, walkVars>>

\* a caller deletes a key
DoDelete(k, fail) ==
    /\ Storage # "none"
    /\ LET r == Delete(objects, k, fail)
       IN  /\ objects' = r.objects
           /\ opRet' = Done("Delete", k, "", 0, FALSE, r.err,
                            Remove(objects, k, fail).err)
    /\ UNCHANGED <<cfgVars, PresignedCache, timeVars, urlVars, probeVars, walkVars>>

\* a caller reads a key
DoGet(k, fail) ==
    /\ Storage # "none"
    /\ LET r == Get(objects, k, fail)
       IN  opRet' = Done("Get", k, r.val, 0, FALSE, r.err,
                         ReadBytes(objects, k, fail).err)
    /\ UNCHANGED <<cfgVars, PresignedCache, objects, timeVars, urlVars, probeVars,
                   walkVars>>

\* a caller reads a key as a stream
DoGetStream(k, fail) ==
    /\ Storage # "none"
    /\ LET r == GetStream(objects, k, fail)
       IN  opRet' = Done("GetStream", k, r.val, 0, FALSE, r.err,
                         ReadBytes(objects, k, fail).err)
    /\ UNCHANGED <<cfgVars, PresignedCache, objects, timeVars, urlVars, probeVars,
                   walkVars>>

\* a caller asks whether a key is stored
DoHas(k, fail) ==
    /\ Storage # "none"
    /\ LET r == Has(objects, k, fail)
       IN  opRet' = Done("Has", k, "", 0, r.ok, r.err, Stat(objects, k, fail).err)
    /\ UNCHANGED <<cfgVars, PresignedCache, objects, timeVars, urlVars, probeVars,
                   walkVars>>

\* a caller closes the store
DoClose(fail) ==
    /\ Storage # "none"
    /\ opRet' = Done("Close", "", "", 0, FALSE, Close(fail), IF fail THEN ErrIO ELSE NoErr)
    /\ UNCHANGED <<cfgVars, PresignedCache, objects, timeVars, urlVars, probeVars,
                   walkVars>>

---------------------------------------------------------------------------
(* SpecKV: callers that read, write and delete. *)

InitKV ==
    \E b \in Backends, openFails \in BOOLEAN :
        Configured(b, FALSE, DefaultEndpoint, openFails)

NextKV ==
    \/ \E k \in Keys, v \in Values, fail \in BOOLEAN : DoPut(k, v, fail)
    \/ \E k \in Keys, fail \in BOOLEAN : DoDelete(k, fail)
    \/ \E k \in Keys, fail \in BOOLEAN : DoGet(k, fail)
    \/ \E k \in Keys, fail \in BOOLEAN : DoHas(k, fail)

SpecKV == InitKV /\ [][NextKV]_vars

---------------------------------------------------------------------------
(* Driver.ProbeCSPUri *)

\* url.URL.String() of a URL without user, opaque part and fragment (the
\* paths of the model start with "/", the hosts need no escaping)
URLString(url) ==
    (IF url.Scheme # "" THEN url.Scheme \o ":" ELSE "")
    \o (IF url.Scheme # "" \/ url.Host # ""
        THEN (IF url.Host # "" \/ url.Path # "" THEN "//" ELSE "") \o url.Host
        ELSE "")
    \o url.Path
    \o (IF url.RawQuery # "" THEN "?" \o url.RawQuery ELSE "")

\* the stripped URL with the path left in
StrippedWithPath(url) ==
    [NoURL EXCEPT !.Scheme = url.Scheme, !.Host = url.Host, !.Path = url.Path]

\* uStripped := &url.URL{Scheme: u.Scheme, Host: u.Host}
Stripped(url) == [NoURL EXCEPT !.Scheme = url.Scheme, !.Host = url.Host]

\* gtserror.Newf("error putting file in bucket at key %s: %w", cspKey, err)
PutError(err) == "error putting file in bucket at key " \o cspKey \o ": " \o err

\* ProbeCSPUri's pending results: the signed URL, the values to return, and
\* berr, the error the failing call of the backend returned
NoProbeRes == [u |-> NoURL, uri |-> "", err |-> NoErr, berr |-> NoErr]

\* if !ok || d.Proxy { return "", nil }
ProbeGated ==
    /\ Storage # "none"
    /\ ppc = "idle"
    /\ ~Presigns
    /\ probeLog' = <<>>
    /\ probeRes' = NoProbeRes
    /\ probeRet' = Some([uri |-> "", err |-> NoErr])
    /\ UNCHANGED <<cfgVars, PresignedCache, objects, timeVars, urlVars, ppc,
                   walkVars, opRet>>

\* the put with the cleanup deferred before it: the Delete runs after a
\* failed put as well
ProbePutDeferredFirst(fail) ==
    /\ ppc = "idle"
    /\ Presigns
    /\ LET r == Put(objects, cspKey, "", fail)
       IN  /\ objects' = r.objects
           /\ probeLog' = <<IF r.err # NoErr THEN "put err" ELSE "put ok">>
           /\ probeRes' = [NoProbeRes EXCEPT !.berr = r.err,
                                             !.err = IF r.err # NoErr
                                                     THEN PutError(r.err) ELSE NoErr]
           /\ probeRet' = probeRet
           /\ ppc' = IF r.err # NoErr THEN "cleanup" ELSE "sign"
    /\ UNCHANGED <<cfgVars, PresignedCache, timeVars, urlVars, walkVars, opRet>>

\* d.Put(ctx, cspKey, make([]byte, 0)): on an error ProbeCSPUri returns it,
\* before the cleanup is deferred
ProbePut(fail) ==
    /\ ppc = "idle"
    /\ Presigns
    /\ LET r == Put(objects, cspKey, "", fail)
       IN  /\ objects' = r.objects
           /\ probeLog' = <<IF r.err # NoErr THEN "put err" ELSE "put ok">>
           /\ probeRes' = [NoProbeRes EXCEPT !.berr = r.err]
           /\ IF r.err # NoErr
              THEN /\ probeRet' = Some([uri |-> "", err |-> PutError(r.err)])
                   /\ ppc' = "idle"
              ELSE /\ probeRet' = probeRet
                   /\ ppc' = "sign"
    /\ UNCHANGED <<cfgVars, PresignedCache, timeVars, urlVars, walkVars, opRet>>

\* the return on the signing error without a deferred cleanup
ProbeSignFailUndeferred ==
    /\ ppc = "sign"
    /\ probeLog' = Append(probeLog, "sign err")
    /\ probeRes' = [u |-> NoURL, uri |-> "", err |-> ErrSign, berr |-> ErrSign]
    /\ probeRet' = Some([uri |-> "", err |-> ErrSign])
    /\ ppc' = "idle"
    /\ UNCHANGED <<cfgVars, PresignedCache, objects, timeVars, urlVars, walkVars, opRet>>

\* PresignedGetObject fails: return "", err (the deferred cleanup follows)
ProbeSignFail ==
    /\ ppc = "sign"
    /\ probeLog' = Append(probeLog, "sign err")
    /\ probeRes' = [u |-> NoURL, uri |-> "", err |-> ErrSign, berr |-> ErrSign]
    /\ ppc' = "cleanup"
    /\ UNCHANGED <<cfgVars, PresignedCache, objects, timeVars, urlVars, probeRet,
                   walkVars, opRet>>

\* PresignedGetObject returns u: return uStripped.String(), nil (the
\* deferred cleanup follows)
ProbeSignOk ==
    /\ ppc = "sign"
    /\ probeLog' = Append(probeLog, "sign ok")
    /\ LET url == PresignedGetObject(Endpoint, Bucket, cspKey, probeTTL, clock)
       IN  probeRes' = [u |-> url, uri |-> URLString(Stripped(url)), err |-> NoErr,
                        berr |-> NoErr]
    /\ ppc' = "cleanup"
    /\ UNCHANGED <<cfgVars, PresignedCache, objects, timeVars, urlVars, probeRet,
                   walkVars, opRet>>

\* the cleanup with its error returned instead of logged
ProbeCleanupReturningError(fail) ==
    /\ ppc = "cleanup"
    /\ LET r == Delete(objects, cspKey, fail)
       IN  /\ objects' = r.objects
           /\ probeLog' = Append(probeLog, IF r.err # NoErr
                                            THEN "delete err (warning)"
                                            ELSE "delete ok")
           /\ probeRet' = IF r.err # NoErr
                          THEN Some([uri |-> "", err |-> r.err])
                          ELSE Some([uri |-> probeRes.uri, err |-> probeRes.err])
    /\ ppc' = "idle"
    /\ UNCHANGED <<cfgVars, PresignedCache, timeVars, urlVars, probeRes,
                   walkVars, opRet>>

\* the deferred function: d.Delete(ctx, cspKey), a warning if it fails;
\* then ProbeCSPUri returns what it was about to return
ProbeCleanup(fail) ==
    /\ ppc = "cleanup"
    /\ LET r == Delete(objects, cspKey, fail)
       IN  /\ objects' = r.objects
           /\ probeLog' = Append(probeLog, IF r.err # NoErr
                                            THEN "delete err (warning)"
                                            ELSE "delete ok")
    /\ probeRet' = Some([uri |-> probeRes.uri, err |-> probeRes.err])
    /\ ppc' = "idle"
    /\ UNCHANGED <<cfgVars, PresignedCache, timeVars, urlVars, probeRes,
                   walkVars, opRet>>

---------------------------------------------------------------------------
(* SpecProbe: a caller of URL, ProbeCSPUri, and an operator who removes a  *)
(* probe object left over.                                                 *)

InitProbe ==
    \E b \in Backends, proxy, openFails \in BOOLEAN, ep \in Endpoints :
        Configured(b, proxy, ep, openFails)

NextProbe ==
    \/ \E k \in Keys : URLGated(1, k)
    \/ \E k \in Keys : MayCall(k) /\ URLLock(1, k)
    \/ \E k \in Keys : URLHit(1, k)
    \/ \E k \in Keys : URLMiss(1, k)
    \/ URLSignFail(1)
    \/ URLSignOk(1)
    \/ URLStamp(1)
    \/ URLSet(1)
    \/ ProbeGated
    \/ \E fail \in BOOLEAN : ProbePut(fail)
    \/ ProbeSignFail
    \/ ProbeSignOk
    \/ \E fail \in BOOLEAN : ProbeCleanup(fail)
    \/ \E fail \in BOOLEAN : DoDelete(cspKey, fail)

SpecProbe == InitProbe /\ [][NextProbe]_vars

---------------------------------------------------------------------------
(* Driver.WalkKeys *)

\* the orders a backend may enumerate the keys S in
Orders(S) ==
    {f \in [1..Cardinality(S) -> S] : \A i, j \in 1..Cardinality(S) : f[i] = f[j] => i = j}

\* WalkFn without the skip of store.lock
WalkFnUnfiltered(k, verr) ==
    [invoked |-> TRUE, err |-> IF verr THEN ErrWalk ELSE NoErr]

\* WalkFn that goes on when the visitor fails
WalkFnSwallowing(k, verr) ==
    [invoked |-> k # "store.lock", err |-> NoErr]

\* WalkFn of Driver.WalkKeys on one entry: whether the visitor is invoked
\* with the entry's key, and the error handed back to the backend (verr says
\* whether the visitor fails)
WalkFn(k, verr) ==
    IF k = "store.lock"
    THEN [invoked |-> FALSE, err |-> NoErr]
    ELSE [invoked |-> TRUE, err |-> IF verr THEN ErrWalk ELSE NoErr]

\* d.Storage.WalkKeys starts to enumerate the stored keys in its own order
WalkStart(order) ==
    /\ Storage # "none"
    /\ wpc = "idle"
    /\ walkEnum' = [order |-> order, pos |-> 1, verr |-> NoErr, berr |-> NoErr]
    /\ visited' = <<>>
    /\ wpc' = "walking"
    /\ UNCHANGED <<cfgVars, PresignedCache, objects, timeVars, urlVars, probeVars,
                   walkRet, opRet>>

\* return d.Storage.WalkKeys(...): what the Driver returns when the store's
\* WalkKeys has returned berr
WalkKeys(berr) == berr

\* the backend hands the next entry to WalkFn; an error of WalkFn ends the
\* enumeration and is what the store's WalkKeys returns.  walkEnum.verr is
\* what the visitor returned if it was invoked, walkEnum.berr what the store
\* returned
WalkStep(verr) ==
    /\ wpc = "walking"
    /\ walkEnum.pos <= Len(walkEnum.order)
    /\ LET r == WalkFn(walkEnum.order[walkEnum.pos], verr)
       IN  /\ visited' = IF r.invoked
                         THEN Append(visited, walkEnum.order[walkEnum.pos])
                         ELSE visited
           /\ walkEnum' = [walkEnum EXCEPT
                             !.pos = @ + 1,
                             !.verr = IF r.invoked /\ verr THEN ErrWalk ELSE NoErr,
                             !.berr = r.err]
           /\ IF r.err # NoErr
              THEN wpc' = "idle" /\ walkRet' = Some(WalkKeys(r.err))
              ELSE wpc' = wpc /\ walkRet' = walkRet
    /\ UNCHANGED <<cfgVars, PresignedCache, objects, timeVars, urlVars, probeVars,
                   opRet>>

\* the enumeration is through: WalkKeys returns nil
WalkEnd ==
    /\ wpc = "walking"
    /\ walkEnum.pos > Len(walkEnum.order)
    /\ wpc' = "idle"
    /\ walkRet' = Some(WalkKeys(NoErr))
    /\ UNCHANGED <<cfgVars, PresignedCache, objects, timeVars, urlVars, probeVars,
                   walkEnum, visited, opRet>>

\* the backend fails to enumerate further: WalkKeys returns its error
WalkFail ==
    /\ wpc = "walking"
    /\ wpc' = "idle"
    /\ walkEnum' = [walkEnum EXCEPT !.verr = NoErr, !.berr = ErrIO]
    /\ walkRet' = Some(WalkKeys(ErrIO))
    /\ UNCHANGED <<cfgVars, PresignedCache, objects, timeVars, urlVars, probeVars,
                   visited, opRet>>

---------------------------------------------------------------------------
(* SpecStore: the operations on the store. *)

InitStore ==
    \E b \in Backends, openFails \in BOOLEAN :
        Configured(b, FALSE, DefaultEndpoint, openFails)

NextStore ==
    \/ \E k \in StoreKeys : DoPut(k, "x", FALSE)
    \/ \E k \in StoreKeys : DoDelete(k, FALSE)
    \/ \E order \in Orders(DOMAIN objects) : WalkStart(order)
    \/ \E verr \in BOOLEAN : WalkStep(verr)
    \/ WalkEnd
    \/ WalkFail

SpecStore == InitStore /\ [][NextStore]_vars

---------------------------------------------------------------------------
(* SpecErr: every operation of the Driver on a store and a signing backend *)
(* that may fail.                                                          *)

\* the key the operations are called with
ErrKeys == {"a.png"}

InitErr ==
    \E b \in Backends, openFails \in BOOLEAN :
        Configured(b, FALSE, DefaultEndpoint, openFails)

NextErr ==
    \/ \E k \in ErrKeys, fail \in BOOLEAN : DoGet(k, fail)
    \/ \E k \in ErrKeys, fail \in BOOLEAN : DoGetStream(k, fail)
    \/ \E k \in ErrKeys, fail \in BOOLEAN : DoPut(k, "x", fail)
    \/ \E k \in ErrKeys, fail \in BOOLEAN : DoPutStream(k, "x", fail)
    \/ \E k \in ErrKeys, fail \in BOOLEAN : DoDelete(k, fail)
    \/ \E k \in ErrKeys, fail \in BOOLEAN : DoHas(k, fail)
    \/ \E fail \in BOOLEAN : DoClose(fail)
    \/ \E order \in Orders(DOMAIN objects) : WalkStart(order)
    \/ \E verr \in BOOLEAN : WalkStep(verr)
    \/ WalkEnd
    \/ WalkFail
    \/ ProbeGated
    \/ \E fail \in BOOLEAN : ProbePut(fail)
    \/ ProbeSignFail
    \/ ProbeSignOk
    \/ \E fail \in BOOLEAN : ProbeCleanup(fail)

SpecErr == InitErr /\ [][NextErr]_vars

---------------------------------------------------------------------------
(* SpecFill: a caller of URL on a cache that is full, or one entry short   *)
(* of it.                                                                  *)

\* the i-th key
Obj(i) == "obj" \o ToString(i)

\* the state of an S3 Driver that does not proxy after URL has been called
\* for Obj(1) .. Obj(n), one key a second, each signed and inserted in the
\* second i of its call
Filled(n) ==
    LET d == AutoConfig("s3", FALSE, FALSE)
        signed(i) == PresignedGetObject(DefaultEndpoint, Bucket, Obj(i), urlCacheTTL, i)
        entry(i) == [Value |-> NewPSU(signed(i), i), Expiry |-> i + d.PresignedCache.TTL]
        index(k) == CHOOSE i \in 1..n : Obj(i) = k
    IN  /\ backend = "s3"
        /\ Storage = d.Storage
        /\ Proxy = d.Proxy
        /\ PresignedCache =
             [d.PresignedCache EXCEPT
                !.Cache = [k \in {Obj(i) : i \in 1..n} |-> entry(index(k))]]
        /\ configErr = d.err
        /\ Endpoint = DefaultEndpoint
        /\ objects = OpenedObjects(d.Storage)
        /\ clock = n
        /\ sweepAt = PassAtOrAfter(n + 1)
        /\ advances = 0
        /\ pc = [t \in Threads |-> "idle"]
        /\ key = [t \in Threads |-> ""]
        /\ u = [t \in Threads |-> NoURL]
        /\ psu = [t \in Threads |-> NoPSU]
        /\ ret = [t \in Threads |-> Nil]
        /\ signCalls = 0
        /\ issued = [k \in {Obj(i) : i \in 1..n} |->
                       [psu |-> entry(index(k)).Value, insertedAt |-> index(k)]]
        /\ ppc = "idle"
        /\ probeRes = NoProbeRes
        /\ probeRet = Nil
        /\ probeLog = <<>>
        /\ wpc = "idle"
        /\ walkEnum = [order |-> <<>>, pos |-> 1, verr |-> NoErr, berr |-> NoErr]
        /\ visited = <<>>
        /\ walkRet = Nil
        /\ opRet = Nil

\* the keys the caller asks for: the first and the last of the keys cached,
\* and two that are new
FillKeys == {Obj(1), Obj(cacheCap - 1), Obj(cacheCap + 1), Obj(cacheCap + 2)}

InitFill == \E n \in {cacheCap - 1, cacheCap} : Filled(n)

NextFill ==
    \/ \E k \in FillKeys : MayCall(k) /\ URLLock(1, k)
    \/ \E k \in FillKeys : URLHit(1, k)
    \/ \E k \in FillKeys : URLMiss(1, k)
    \/ URLSignFail(1)
    \/ URLSignOk(1)
    \/ URLStamp(1)
    \/ URLSet(1)

SpecFill == InitFill /\ [][NextFill]_vars

---------------------------------------------------------------------------
(* Spec: concurrent callers of URL. *)

Init ==
    \E b \in Backends, proxy, openFails \in BOOLEAN :
        Configured(b, proxy, DefaultEndpoint, openFails)

Next ==
    \/ \E t \in Threads, k \in Keys : URLGated(t, k)
    \/ \E t \in Threads, k \in Keys : MayCall(k) /\ URLLock(t, k)
    \/ \E t \in Threads, k \in Keys : URLHit(t, k)
    \/ \E t \in Threads, k \in Keys : URLMiss(t, k)
    \/ \E t \in Threads : URLSignFail(t)
    \/ \E t \in Threads : URLSignOk(t)
    \/ \E t \in Threads : URLStamp(t)
    \/ \E t \in Threads : URLSet(t)

Spec == Init /\ [][Next]_vars

\* SpecFair: the same callers, each of which goes on once it has called: the
\* peek, the signing call and the construction of the PresignedURL return,
\* and a caller that waits for the mutex to insert gets it in the end
Fairness ==
    \A t \in Threads :
        /\ WF_vars(\E k \in Keys : URLHit(t, k) \/ URLMiss(t, k))
        /\ WF_vars(URLSignFail(t) \/ URLSignOk(t))
        /\ WF_vars(URLStamp(t))
        /\ SF_vars(URLSet(t))

SpecFair == Init /\ [][Next]_vars /\ Fairness

---------------------------------------------------------------------------
(* The claims. *)

\* a Driver that must not presign: its backend is not S3, or it proxies
GatedDriver == Storage # "none" /\ (Storage # "S3Storage" \/ Proxy)

\* a Driver on S3 that does not proxy
S3Direct == Storage = "S3Storage" /\ ~Proxy

\* C1: on a Driver whose backend is not S3 or whose Proxy flag is set, every
\* URL call returns nil and every ProbeCSPUri returns "" and no error, no
\* call gets as far as the signing backend or the store, and the
\* presigned-URL cache stays as it was constructed; a PresignedURL is only
\* returned by a Driver on S3 with Proxy false.
C1_CapabilityGating ==
    /\ GatedDriver =>
         /\ \A t \in Threads : ret[t] # Nil => ret[t][1].val = Nil
         /\ probeRet # Nil => probeRet[1] = [uri |-> "", err |-> NoErr]
         /\ \A t \in Threads : pc[t] = "idle"
         /\ ppc = "idle"
         /\ signCalls = 0
         /\ probeLog = <<>>
         /\ PresignedCache.Cache = EmptyMap
    /\ \A t \in Threads :
         (ret[t] # Nil /\ ret[t][1].val # Nil) => (Storage = "S3Storage" /\ ~Proxy)

\* C1's case: an S3 Driver that proxies has answered a URL call and a probe
C1_Witness ==
    /\ Storage = "S3Storage" /\ Proxy
    /\ ret[1] # Nil
    /\ probeRet # Nil

\* in this step a call of URL by caller 1 returns, and it asked for k
Returns(k) == ret'[1] # ret[1] /\ ret'[1][1].key = k

\* C2: a URL(k) call that returns within the cache TTL of the insertion of
\* the entry last returned for k returns a URL with the same Expiry and does
\* not call the signing backend, whatever other keys were asked for in
\* between.
C2_HitWithinTTL ==
    [][\A k \in DOMAIN issued :
         (Returns(k) /\ clock < issued[k].insertedAt + cacheTTL) =>
            /\ ret'[1][1].val # Nil
            /\ ret'[1][1].val[1].Expiry = issued[k].psu.Expiry
            /\ ~ret'[1][1].signed
            /\ signCalls' = signCalls]_vars

\* C2, amended: a URL(k) call that returns within the cache TTL of the
\* insertion of the entry last returned for k, and that found the entry for k
\* in the cache, returns a URL with the same Expiry and does not call the
\* signing backend; and an entry leaves the cache only when the insertion of
\* a key that is new meets the cache full, with 1000 entries.
C2_HitUnlessDisplaced ==
    [][/\ \A k \in DOMAIN issued :
            (/\ Returns(k)
             /\ clock < issued[k].insertedAt + cacheTTL
             /\ k \in DOMAIN PresignedCache.Cache) =>
                /\ ret'[1][1].val # Nil
                /\ ret'[1][1].val[1].Expiry = issued[k].psu.Expiry
                /\ ~ret'[1][1].signed
                /\ signCalls' = signCalls
       /\ \A k \in DOMAIN PresignedCache.Cache :
            k \notin DOMAIN PresignedCache'.Cache =>
                /\ Cardinality(DOMAIN PresignedCache.Cache) = 1000
                /\ pc[1] = "set"
                /\ key[1] \notin DOMAIN PresignedCache.Cache]_vars

\* the case of the amended C2: the full cache has taken a new key and given
\* up another, and a key it kept was then served from it
C2_DisplacedWitness ==
    /\ ret[1] # Nil
    /\ ret[1][1].key = "obj999" /\ ret[1][1].val # Nil /\ ~ret[1][1].signed
    /\ Cardinality(DOMAIN PresignedCache.Cache) = 1000
    /\ "obj1001" \in DOMAIN PresignedCache.Cache
    /\ "obj1" \notin DOMAIN PresignedCache.Cache

\* C2's case: a.png was cached, b.jpg was asked for later, time went on and
\* a.png was then served from the cache
C2_Witness ==
    /\ ret[1] # Nil
    /\ ret[1][1].key = "a.png" /\ ret[1][1].val # Nil /\ ~ret[1][1].signed
    /\ DOMAIN issued = {"a.png", "b.jpg"}
    /\ issued["b.jpg"].insertedAt > issued["a.png"].insertedAt
    /\ ret[1][1].at > issued["b.jpg"].insertedAt
    /\ ret[1][1].at < issued["a.png"].insertedAt + cacheTTL

\* C3: when PresignedGetObject fails for a key the cache holds no entry for,
\* URL returns nil and the cache is what it was; it has no entry for the key.
C3_SignFailure ==
    [][(pc[1] = "sign" /\ pc'[1] = "idle") =>
         /\ ret'[1] # Nil
         /\ ret'[1][1].key = key[1]
         /\ ret'[1][1].val = Nil
         /\ PresignedCache' = PresignedCache
         /\ key[1] \notin DOMAIN PresignedCache'.Cache]_vars

\* C3's case: signing failed for b.jpg while a.png was cached
C3_Witness ==
    /\ ret[1] # Nil
    /\ ret[1][1].key = "b.jpg" /\ ret[1][1].val = Nil /\ ret[1][1].signed
    /\ DOMAIN PresignedCache.Cache = {"a.png"}

\* whether S3 still accepts the signature of url at time now: it rejects a
\* request made more than Expires after Date
SignatureValid(url, now) == now - url.Date <= url.Expires

\* C4: the signature of every PresignedURL a URL call returns is still valid
\* at the moment it is returned: the cache never serves a lapsed signature.
C4_NoLapsedSignature ==
    \A t \in Threads :
        (ret[t] # Nil /\ ret[t][1].val # Nil) =>
            SignatureValid(ret[t][1].val[1].URL, ret[t][1].at)

\* C5 as stated: a URL(k) call that returns once the cache TTL has elapsed
\* since the insertion of the entry last returned for k has called the
\* signing backend again, and the URL it returns expires strictly later.
C5_ResignAfterTTL ==
    [][\A k \in DOMAIN issued :
         (Returns(k) /\ clock >= issued[k].insertedAt + cacheTTL) =>
            /\ ret'[1][1].signed
            /\ ret'[1][1].val # Nil => ret'[1][1].val[1].Expiry > issued[k].psu.Expiry]_vars

\* the time of the last sweep pass that has run
LastPass == sweepAt - urlCacheExpiryFrequency

\* C5, amended: a URL(k) call that returns once a sweep pass has run later
\* than the cache TTL after the insertion of the entry last returned for k
\* has called the signing backend again, and the URL it returns, if any,
\* expires strictly later.
C5_ResignAfterSweep ==
    [][\A k \in DOMAIN issued :
         (Returns(k) /\ LastPass > issued[k].insertedAt + cacheTTL) =>
            /\ ret'[1][1].signed
            /\ ret'[1][1].val # Nil => ret'[1][1].val[1].Expiry > issued[k].psu.Expiry]_vars

\* C5's case: a.png was signed, its entry was swept after the TTL, and a.png
\* was signed again
C5_Witness ==
    /\ ret[1] # Nil
    /\ ret[1][1].key = "a.png" /\ ret[1][1].val # Nil /\ ret[1][1].signed
    /\ signCalls = 2
    /\ DOMAIN issued = {"a.png"}
    /\ ret[1][1].val[1].Expiry > urlCacheTTL + cacheTTL

\* ProbeCSPUri has returned, and it ran on S3 without proxying
ProbeReturned == S3Direct /\ ppc = "idle" /\ probeRet # Nil /\ probeLog # <<>>

\* in this step ProbeCSPUri returns
ProbeReturns == probeLog' # probeLog /\ ppc' = "idle"

IsSign(e) == e \in {"sign ok", "sign err"}
IsDelete(e) == e \in {"delete ok", "delete err (warning)"}

\* C6: a ProbeCSPUri that has written the probe object calls the signing
\* backend and then Delete, once, before it returns, whether signing
\* succeeded or failed; until then it has not called Delete.
C6_CleanupOnce ==
    /\ (ProbeReturned /\ probeLog[1] = "put ok") =>
          /\ Len(probeLog) = 3
          /\ IsSign(probeLog[2])
          /\ IsDelete(probeLog[3])
    /\ ppc \in {"sign", "cleanup"} =>
          \A i \in 1..Len(probeLog) : ~IsDelete(probeLog[i])

\* C6's case: signing failed and the probe object was deleted
C6_Witness ==
    /\ ProbeReturned
    /\ probeLog = <<"put ok", "sign err", "delete ok">>

\* C7 as stated: when ProbeCSPUri returns on S3 without proxying, the probe
\* object is absent from the bucket.
C7_ProbeObjectAbsent ==
    [][(S3Direct /\ ProbeReturns) => cspKey \notin DOMAIN objects']_vars

\* C7, amended: when ProbeCSPUri returns after a cleanup Delete that
\* succeeded, the probe object is absent from the bucket.
C7_AbsentAfterDelete ==
    [][(S3Direct /\ ProbeReturns /\ probeLog'[Len(probeLog')] = "delete ok")
          => cspKey \notin DOMAIN objects']_vars

\* C7's case: the probe has run to its end and the cleanup succeeded
C7_Witness ==
    /\ ProbeReturned
    /\ probeLog = <<"put ok", "sign ok", "delete ok">>
    /\ cspKey \notin DOMAIN objects

\* C8: ProbeCSPUri returns "" with an error exactly when the put or the
\* signing failed, and otherwise the origin and no error; whether the cleanup
\* Delete failed makes no difference.
C8_FailureByPhase ==
    ProbeReturned =>
        LET failed == \/ probeLog[1] = "put err"
                      \/ (Len(probeLog) >= 2 /\ probeLog[2] = "sign err")
        IN  /\ failed <=> (probeRet[1].uri = "" /\ probeRet[1].err # NoErr)
            /\ ~failed => (probeRet[1].uri # "" /\ probeRet[1].err = NoErr)

\* C8's case: put and signing succeeded and the cleanup failed
C8_Witness ==
    /\ ProbeReturned
    /\ probeLog = <<"put ok", "sign ok", "delete err (warning)">>
    /\ probeRet[1].err = NoErr

\* C9: when put and signing succeed, ProbeCSPUri returns the scheme, "://"
\* and the host of the URL the signing backend returned, nothing else.
C9_SchemeAndHost ==
    (ProbeReturned /\ Len(probeLog) >= 2 /\ probeLog[2] = "sign ok") =>
        /\ probeRes.u.Path # "" /\ probeRes.u.RawQuery # ""
        /\ probeRet[1].uri = probeRes.u.Scheme \o "://" \o probeRes.u.Host

\* C9's case: https://cdn.example.com/bucket/gotosocial-csp-probe?... gives
\* https://cdn.example.com
C9_Witness ==
    /\ ProbeReturned
    /\ probeRes.u.Scheme = "https" /\ probeRes.u.Host = "cdn.example.com"
    /\ probeRes.u.Path = "/bucket/gotosocial-csp-probe"
    /\ probeRet[1] = [uri |-> "https://cdn.example.com", err |-> NoErr]

\* the entries of seq that are not store.lock, in order
NotLock(k) == k # "store.lock"
WithoutLock(seq) == SelectSeq(seq, NotLock)

\* C10: the visitor has been invoked with exactly the keys the backend has
\* enumerated so far, store.lock left out, in the order of the enumeration;
\* it is never invoked with store.lock.
C10_WalkSkipsLock ==
    /\ visited = WithoutLock(SubSeq(walkEnum.order, 1, walkEnum.pos - 1))
    /\ \A i \in 1..Len(visited) : visited[i] # "store.lock"

\* C10's case: a walk over three keys, store.lock among them, has ended
C10_Witness ==
    /\ wpc = "idle" /\ walkRet = Some(NoErr)
    /\ Len(walkEnum.order) = 3
    /\ \E i \in 1..3 : walkEnum.order[i] = "store.lock"
    /\ Len(visited) = 2
    /\ Storage = "S3Storage"

\* in this step an operation op on key k returns
Op(op, k) == opRet' # opRet /\ opRet'[1].op = op /\ opRet'[1].key = k

\* C11: a successful Put(k, v) stores v under k, which held nothing; a Put
\* on a key that holds a value fails (with ErrAlreadyExists unless the store
\* fails with an error of its own) and leaves the value; a Get(k) that
\* succeeds returns the value stored; and only a successful Delete(k) takes
\* a stored value away or changes it.
C11_WriteOnce ==
    [][\A k \in Keys :
         /\ (Op("Put", k) /\ opRet'[1].err = NoErr) =>
               /\ k \notin DOMAIN objects
               /\ k \in DOMAIN objects' /\ objects'[k] = opRet'[1].val
               /\ opRet'[1].n = Len(opRet'[1].val)
         /\ (Op("Put", k) /\ k \in DOMAIN objects) =>
               /\ opRet'[1].err # NoErr
               /\ opRet'[1].berr # ErrIO => opRet'[1].err = ErrAlreadyExists
         /\ (Op("Get", k) /\ k \in DOMAIN objects /\ opRet'[1].err = NoErr) =>
               opRet'[1].val = objects[k]
         /\ (k \in DOMAIN objects /\ ~(Op("Delete", k) /\ opRet'[1].err = NoErr)) =>
               (k \in DOMAIN objects' /\ objects'[k] = objects[k])]_vars

\* C11's case: a.png holds "x", and a Put of "y" was turned down
C11_Witness ==
    /\ opRet # Nil
    /\ opRet[1].op = "Put" /\ opRet[1].key = "a.png" /\ opRet[1].val = "y"
    /\ opRet[1].err = ErrAlreadyExists
    /\ opRet[1].after = "Put"
    /\ "a.png" \in DOMAIN objects /\ objects["a.png"] = "x"

\* C12: a successful Delete(k) removes k, which was stored; Has(k) on a key
\* that is not stored returns false; a Delete on a key that is not stored
\* fails (with ErrNotFound unless the store fails with an error of its own);
\* and only a successful Put(k) makes k stored.
C12_DeleteThenAbsent ==
    [][\A k \in Keys :
         /\ (Op("Delete", k) /\ opRet'[1].err = NoErr) =>
               (k \in DOMAIN objects /\ k \notin DOMAIN objects')
         /\ (Op("Has", k) /\ k \notin DOMAIN objects) => ~opRet'[1].ok
         /\ (Op("Delete", k) /\ k \notin DOMAIN objects) =>
               /\ opRet'[1].err # NoErr
               /\ opRet'[1].berr # ErrIO => opRet'[1].err = ErrNotFound
         /\ (k \notin DOMAIN objects /\ ~(Op("Put", k) /\ opRet'[1].err = NoErr)) =>
               k \notin DOMAIN objects']_vars

\* C12's case: b.jpg was deleted, and a further Delete found nothing
C12_Witness ==
    /\ opRet # Nil
    /\ opRet[1].op = "Delete" /\ opRet[1].key = "b.jpg"
    /\ opRet[1].err = ErrNotFound
    /\ opRet[1].after = "Delete"
    /\ "b.jpg" \notin DOMAIN objects
    /\ "a.png" \in DOMAIN objects

\* a call of URL has returned to caller t a PresignedURL for k that is valid
\* and not expired
GotValidURL(t) ==
    /\ ret[t] # Nil /\ ret[t][1].val # Nil
    /\ ret[t][1].val[1].URL.Path = "/" \o Bucket \o "/" \o ret[t][1].key
    /\ SignatureValid(ret[t][1].val[1].URL, ret[t][1].at)
    /\ ret[t][1].val[1].Expiry > ret[t][1].at

C14_AutoConfig ==
    /\ backend \notin {"s3", "local"} =>
         /\ Storage = "none"
         /\ configErr = "invalid storage backend: " \o backend
    /\ (backend = "local" /\ Storage # "none") =>
         /\ Storage = "DiskStorage"
         /\ PresignedCache.isNil /\ PresignedCache.sweepEvery = 0
         /\ ~Proxy
    /\ (backend = "s3" /\ Storage # "none") =>
         /\ Storage = "S3Storage"
         /\ ~PresignedCache.isNil
         /\ PresignedCache.Cap = 1000
         /\ PresignedCache.TTL = urlCacheTTL - urlCacheExpiryFrequency
         /\ PresignedCache.sweepEvery = urlCacheExpiryFrequency
    /\ Storage = "none" <=> configErr # NoErr
    /\ Storage = "none" =>
         /\ \A t \in Threads : pc[t] = "idle" /\ ret[t] = Nil
         /\ probeRet = Nil /\ walkRet = Nil /\ opRet = Nil

\* C14's case: the backend is configured as "gcs"
C14_Witness ==
    /\ backend = "gcs"
    /\ Storage = "none"
    /\ configErr = "invalid storage backend: gcs"

\* in this step a call of URL by caller 1 returns an entry of the cache
ReturnsHit == ret'[1] # ret[1] /\ ret'[1][1].val # Nil /\ ~ret'[1][1].signed

Holder == PresignedCache.mu

\* C16: the mutex of the cache is held only by a caller that is at its peek:
\* a caller that is signing, building its PresignedURL or waiting to insert
\* does not hold it, so with a caller in the signing call and nobody at the
\* peek another caller can take the mutex for its lookup; and an entry gets
\* into the cache only from a caller whose signing call has returned a URL.
C16_NoLockAcrossSigning ==
    /\ [](/\ \A t \in Threads : pc[t] # "peek" => Holder # t
          /\ Holder # 0 => pc[Holder] = "peek"
          /\ \A t, o \in Threads :
               (pc[t] = "sign" /\ pc[o] = "idle" /\ Holder = 0 /\ SignBudget) =>
                   ENABLED (\E k \in Keys : MayCall(k) /\ URLLock(o, k)))
    /\ [][\A k \in DOMAIN PresignedCache'.Cache :
            (k \notin DOMAIN PresignedCache.Cache
               \/ PresignedCache'.Cache[k] # PresignedCache.Cache[k]) =>
                \E t \in Threads :
                    /\ pc[t] = "set" /\ key[t] = k
                    /\ psu[t].URL # NoURL
                    /\ PresignedCache'.Cache[k].Value = psu[t]]_vars

\* C16's case: caller 1 is in its signing call while caller 2 holds the mutex
\* for its lookup
C16_Witness ==
    /\ pc[1] = "sign"
    /\ pc[2] = "peek"
    /\ Holder = 2

\* C18: when the visitor has returned an error, WalkKeys has returned that
\* error and the key the visitor failed on is the last it was invoked with;
\* a step over store.lock invokes no visitor, returns nothing and leaves the
\* enumeration going.
C18_VisitorErrorStops ==
    /\ [](walkEnum.verr # NoErr =>
            /\ wpc = "idle"
            /\ walkRet = Some(walkEnum.verr)
            /\ visited # <<>>
            /\ visited[Len(visited)] = walkEnum.order[walkEnum.pos - 1])
    /\ [][(wpc = "walking" /\ walkEnum'.pos = walkEnum.pos + 1
             /\ walkEnum.order[walkEnum.pos] = "store.lock") =>
               /\ wpc' = "walking"
               /\ walkRet' = walkRet
               /\ visited' = visited
               /\ walkEnum'.verr = NoErr /\ walkEnum'.berr = NoErr]_vars

\* C18's case: store.lock was skipped, a.png visited, the visitor failed on
\* b.jpg, the second of the keys it was invoked with, and a key was left
C18_Witness ==
    /\ wpc = "idle" /\ walkRet = Some(ErrWalk)
    /\ Len(walkEnum.order) = 3
    /\ walkEnum.order[1] = "store.lock"
    /\ walkEnum.pos = 3
    /\ visited = <<walkEnum.order[2]>>

\* the error the last operation on the store returned is the one the store
\* returned
StoreErrorsVerbatim == opRet # Nil => opRet[1].err = opRet[1].berr

\* the error the last WalkKeys returned is the one the store's WalkKeys
\* returned
WalkErrorsVerbatim == (wpc = "idle" /\ walkRet # Nil) => walkRet[1] = walkEnum.berr

\* the last ProbeCSPUri has returned after a call of the backend failed
ProbeFailed == ppc = "idle" /\ probeRet # Nil /\ probeRes.berr # NoErr

\* C17 as stated: Get, GetStream, Put, PutStream, Delete, Has, WalkKeys and
\* Close return the error the store returned, and ProbeCSPUri returns the
\* error its put or its signing call failed with, each the identical value.
C17_Verbatim ==
    /\ StoreErrorsVerbatim
    /\ WalkErrorsVerbatim
    /\ ProbeFailed => probeRet[1].err = probeRes.berr

\* C17, amended: the same, except that ProbeCSPUri returns the error of its
\* put wrapped in a message that names the key; the error of its signing
\* call it returns as it is.
C17_VerbatimButProbePut ==
    /\ StoreErrorsVerbatim
    /\ WalkErrorsVerbatim
    /\ ProbeFailed =>
         IF probeLog[1] = "put err"
         THEN probeRet[1].err =
                "error putting file in bucket at key gotosocial-csp-probe: " \o probeRes.berr
         ELSE probeRet[1].err = probeRes.berr

\* C17's case: a Get has returned ErrNotFound, a walk the error of the
\* store, and a probe the error of its signing call
C17_Witness ==
    /\ opRet # Nil /\ opRet[1].op = "Get" /\ opRet[1].err = ErrNotFound
    /\ wpc = "idle" /\ walkRet = Some(ErrIO)
    /\ ProbeFailed /\ Len(probeLog) = 3 /\ probeLog[2] = "sign err"
    /\ probeRet[1].err = ErrSign

\* C20: a ProbeCSPUri whose put fails returns at once, with "" and an error:
\* the bucket is as it was, and the put is the only call of the backend it
\* has made, no signing call and no Delete.
C20_PutFailureLeavesBucket ==
    /\ []((probeLog # <<>> /\ probeLog[1] = "put err") =>
            /\ Len(probeLog) = 1
            /\ ppc = "idle"
            /\ probeRet # Nil /\ probeRet[1].uri = "" /\ probeRet[1].err # NoErr)
    /\ [][(ppc = "idle" /\ probeLog' # probeLog /\ probeLog'[1] = "put err") =>
            objects' = objects]_vars

\* C20's case: the probe object an earlier probe left is still in the
\* bucket after a probe whose put was turned down with ErrAlreadyExists
C20_Witness ==
    /\ ProbeReturned
    /\ probeLog = <<"put err">>
    /\ probeRes.berr = ErrAlreadyExists
    /\ probeRet[1].err # NoErr
    /\ cspKey \in DOMAIN objects

\* C19: the cache never holds more than 1000 entries, and every entry it
\* holds for a key k holds a PresignedURL whose URL the signing backend has
\* returned for k.
C19_CacheBounded ==
    /\ Cardinality(DOMAIN PresignedCache.Cache) <= 1000
    /\ \A k \in DOMAIN PresignedCache.Cache :
         LET p == PresignedCache.Cache[k].Value
         IN  /\ p.URL # NoURL
             /\ p.URL.Path = "/" \o Bucket \o "/" \o k
             /\ p.URL.RawQuery # ""
             /\ p.URL.Expires = urlCacheTTL

\* C19's case: the full cache has taken a key that is new and given up one
\* of the keys it held
C19_Witness ==
    /\ Cardinality(DOMAIN PresignedCache.Cache) = 1000
    /\ Obj(cacheCap + 1) \in DOMAIN PresignedCache.Cache
    /\ \E i \in 1..cacheCap : Obj(i) \notin DOMAIN PresignedCache.Cache

====
